---- MODULE Spec2Model ----
(***************************************************************************)
(* Job-Skill-Builder: the account handlers of the Postgres/JSON server     *)
(* (src/server.js 1-497, and its JSON-only copy 1368-1695), the session    *)
(* variants (src/server.js 499-1366, src/unnamed/part_000), the client     *)
(* side application tracker (src/public/tracker.js, src/public/app.js)     *)
(* and the getField helper.                                                *)
(*                                                                         *)
(* One module, several specifications: each one starts a single component  *)
(* and leaves the variables of the others at their initial values.         *)
(***************************************************************************)
EXTENDS Integers, Sequences, FiniteSets, TLC

VARIABLES
    component,    \* which program runs: "accounts", "servers", "tracker", "jobs"
    \* ---- Postgres/JSON server (src/server.js 1-497, 1368-1695)
    dbPool,       \* server.js:22-28, TRUE when SUPABASE_DB_URL / DATABASE_URL is set
    usersFile,    \* the array stored in users.json
    usersTable,   \* the rows of the Postgres users table
    reqs,         \* the requests in flight: position and locals of each handler
    lastResp,     \* the response sent last, with the request it answers
    registered,   \* per email, the last registration answered with success
    fileTouched,  \* some handler has read or written users.json
    dbQueried,    \* some handler has sent a query to the pool
    \* ---- application tracker (src/public/tracker.js, src/public/app.js)
    appliedJobsLog,       \* localStorage["appliedJobsLog"]
    pendingApplications,  \* localStorage["pendingApplications"]
    trackerList,          \* the data-id of each .tracker-item rendered
    pendingCards,         \* the number of .pending-card elements rendered
    edits,                \* input events handled so far
    pendingBannerSnooze,  \* sessionStorage["pendingBannerSnooze"] is "true"
    bannerHidden,         \* the dashboard's banner has the class "hidden"
    \* ---- the server variants that keep a session
    variant,      \* the server variant that runs
    userRows,     \* the users collection or table: email -> stored hash
    sessionUser,  \* req.session.user of the browser's session: its email
    stored,       \* the per-user records kept: resumes, jobs, interviews
    reply,        \* the last response of a session-keeping variant
    rowPic,       \* the profile picture column of each users row
    sessionPic,   \* req.session.user.profilePicPath
    tmpResumes,   \* the files of tmp/resumes
    \* ---- getField (src/unnamed/part_000)
    obj,          \* the first argument of the call
    names,        \* the rest arguments of the call
    returned,     \* what the call returned under each definition
    \* ---- the job list: GET /api/jobs (server.js) and fetchJobs (app.js)
    jobsFile,     \* public/jobs.json: whether it exists, and its array
    apiReply,     \* the last response of GET /api/jobs
    cachedJobs,   \* app.js:173, the variable of the dashboard page
    awaiting,     \* the callers of fetchJobs whose request is in flight
    requests,     \* GET /api/jobs requests the page has issued
    lastUse       \* the last list fetchJobs handed to a caller

accountVars == <<dbPool, usersFile, usersTable, reqs, lastResp, registered,
                 fileTouched, dbQueried>>

trackerVars == <<appliedJobsLog, pendingApplications, trackerList,
                 pendingCards, edits, pendingBannerSnooze, bannerHidden>>

\* what the handlers of the tracker page leave alone on the dashboard
bannerVars == <<pendingBannerSnooze, bannerHidden>>

sessionVars ==
    <<userRows, sessionUser, stored, reply, rowPic, sessionPic, tmpResumes>>

fieldVars == <<obj, names, returned>>

jobsVars == <<jobsFile, apiReply, cachedJobs, awaiting, requests, lastUse>>

vars == <<component, variant, accountVars, trackerVars, sessionVars,
          fieldVars, jobsVars>>

\* what the handlers of one component leave alone
offAccounts ==
    <<component, variant, trackerVars, sessionVars, fieldVars, jobsVars>>

offTracker ==
    <<component, variant, accountVars, sessionVars, fieldVars, jobsVars>>

offSession ==
    <<component, variant, accountVars, trackerVars, fieldVars, jobsVars>>

offField ==
    <<component, variant, accountVars, trackerVars, sessionVars, jobsVars>>

offJobs ==
    <<component, variant, accountVars, trackerVars, sessionVars, fieldVars>>

Min(a, b) == IF a < b THEN a ELSE b

(***************************************************************************)
(* Bounds and inputs                                                       *)
(***************************************************************************)
\* requests that may be in flight at once
MaxInFlight == 2

Slots == 1..MaxInFlight

Emails == {"a@x", "b@x"}

\* req.body.email: an address, or missing
EmailInputs == Emails \cup {""}

\* bcrypt reads at most this many bytes of a password
BcryptMaxBytes == 72

Pad == [i \in 1..BcryptMaxBytes |-> 97]

ShortPw == <<112>>

LongPwX == Pad \o <<120>>

LongPwY == Pad \o <<121>>

Passwords == {ShortPw, LongPwX, LongPwY}

\* req.body.password: a password, or missing
PasswordInputs == Passwords \cup {<<>>}

\* the salt bcrypt draws; compare does not read it, one value stands for all
Salts == {1}

\* Math.floor(10000000 + Math.random() * 90000000), server.js:116
UniqueIdBase == 10000000

UniqueIdSpan == 90000000

\* the values of Math.floor(Math.random() * 90000000) the model draws
RandomDraws == {0, UniqueIdSpan - 1}

IdDraws == {UniqueIdBase + d : d \in RandomDraws}

(***************************************************************************)
(* bcrypt                                                                  *)
(***************************************************************************)
\* the bytes of a password bcrypt reads
Truncate(p) == SubSeq(p, 1, Min(Len(p), BcryptMaxBytes))

NoHash == <<>>

\* the "$" a bcrypt hash string starts with
HashMark == 36

\* bcrypt.hash(password, 10): "$", the salt, the digest of the bytes read
BcryptHash(p, salt) == <<HashMark, salt>> \o Truncate(p)

\* bcrypt.compare(password, hash)
BcryptCompare(p, h) == Len(h) >= 2 /\ SubSeq(h, 3, Len(h)) = Truncate(p)

(***************************************************************************)
(* Records                                                                 *)
(***************************************************************************)
NoUser == [id |-> 0, uniqueId |-> 0, email |-> "", password |-> NoHash]

NoRow == [id |-> 0, unique_id |-> 0, email |-> "", password_hash |-> NoHash]

NoUserInfo == [email |-> "", uniqueId |-> 0]

IdleReq == [pc |-> "idle", kind |-> "none", email |-> "", password |-> <<>>,
            users |-> <<>>, user |-> NoUser, row |-> NoRow, uniqueId |-> 0]

NoResp == [kind |-> "none", email |-> "", password |-> <<>>, status |-> 0,
           message |-> "", user |-> NoUserInfo, dbError |-> FALSE]

NotRegistered == [password |-> <<>>, uniqueId |-> 0]

\* !email of a request body
NoEmail(email) == email = ""

\* !password of a request body
NoPassword(password) == password = <<>>

\* users.find((u) => u.email === email)
FindByEmail(users, email) ==
    IF \E i \in 1..Len(users) : users[i].email = email
    THEN users[CHOOSE i \in 1..Len(users) :
                 /\ users[i].email = email
                 /\ \A j \in 1..(i - 1) : users[j].email # email]
    ELSE NoUser

\* server.js:304, 1523
EmailTaken(users, email) == FindByEmail(users, email) # NoUser

\* a variant of generateUniqueId without the do/while test
GenerateUniqueIdUnchecked(users) == IdDraws

\* generateUniqueId, server.js:113-119: the values the loop can return
GenerateUniqueId(users) ==
    {id \in IdDraws : ~\E i \in 1..Len(users) : users[i].uniqueId = id}

\* fetchDbUserByEmail, server.js:162-169: rows[0] || null
FetchDbUserByEmail(email) ==
    IF \E t \in usersTable : t.email = email
    THEN CHOOSE t \in usersTable : t.email = email
    ELSE NoRow

\* a table whose email column lost its UNIQUE constraint
InsertViolatesIdOnly(row) == \E t \in usersTable : t.unique_id = row.unique_id

\* ensureUsersTable, server.js:77-110: email TEXT UNIQUE, unique_id BIGINT UNIQUE
InsertViolates(row) ==
    \/ \E t \in usersTable : t.email = row.email
    \/ \E t \in usersTable : t.unique_id = row.unique_id

\* mapDbUser, server.js:136-160: the fields the claims read
MapDbUser(row) ==
    [email |-> row.email,
     uniqueId |-> IF row.unique_id # 0 THEN row.unique_id ELSE row.id]

\* if (dbPool), server.js:258, 337
UseDb == dbPool

(***************************************************************************)
(* Responses                                                               *)
(***************************************************************************)
Answer(r, status, message, user, dbError) ==
    /\ lastResp' = [kind |-> reqs[r].kind, email |-> reqs[r].email,
                    password |-> reqs[r].password, status |-> status,
                    message |-> message, user |-> user, dbError |-> dbError]
    /\ reqs' = [reqs EXCEPT ![r] = IdleReq]

\* a request is answered before its handler has awaited anything
AnswerAtOnce(r, kind, email, password, status, message) ==
    /\ lastResp' = [kind |-> kind, email |-> email, password |-> password,
                    status |-> status, message |-> message,
                    user |-> NoUserInfo, dbError |-> FALSE]
    /\ reqs' = reqs

\* the lowest idle slot takes the next request
FreeSlot(r) ==
    /\ reqs[r].pc = "idle"
    /\ \A q \in 1..(r - 1) : reqs[q].pc # "idle"

NoRequestInFlight == \A r \in Slots : reqs[r].pc = "idle"

(***************************************************************************)
(* POST /api/register, server.js:241-330 (and 1505-1549)                   *)
(***************************************************************************)
\* server.js:242-306: validation, then the synchronous read of users.json
RegisterBegin(r, email, password, confirmPassword, otherFields) ==
    /\ component = "accounts"
    /\ FreeSlot(r)
    /\ IF ~otherFields \/ NoEmail(email) \/ NoPassword(password)
          \/ NoPassword(confirmPassword)
       THEN /\ AnswerAtOnce(r, "register", email, password, 400,
                            "All fields are required")
            /\ UNCHANGED <<usersFile, usersTable, registered, fileTouched,
                           dbQueried>>
       ELSE IF password # confirmPassword
       THEN /\ AnswerAtOnce(r, "register", email, password, 400,
                            "Passwords do not match")
            /\ UNCHANGED <<usersFile, usersTable, registered, fileTouched,
                           dbQueried>>
       ELSE IF UseDb
       THEN /\ reqs' = [reqs EXCEPT ![r] =
                   [IdleReq EXCEPT !.pc = "pgLookup", !.kind = "register",
                                   !.email = email, !.password = password]]
            /\ UNCHANGED <<usersFile, usersTable, registered, fileTouched,
                           dbQueried, lastResp>>
       ELSE /\ fileTouched' = TRUE
            /\ IF EmailTaken(usersFile, email)
               THEN AnswerAtOnce(r, "register", email, password, 400,
                                 "Email already registered")
               ELSE /\ reqs' = [reqs EXCEPT ![r] =
                           [IdleReq EXCEPT !.pc = "jsonHash",
                                           !.kind = "register",
                                           !.email = email,
                                           !.password = password,
                                           !.users = usersFile]]
                    /\ UNCHANGED lastResp
            /\ UNCHANGED <<usersFile, usersTable, registered, dbQueried>>
    /\ UNCHANGED <<offAccounts, dbPool>>

\* server.js:308-329: after the awaited hash, push and rewrite users.json
RegisterJsonFinish(r) ==
    /\ reqs[r].pc = "jsonHash"
    /\ \E salt \in Salts, uniqueId \in GenerateUniqueId(reqs[r].users) :
          LET users == reqs[r].users
              newUser == [id |-> Len(users) + 1, uniqueId |-> uniqueId,
                          email |-> reqs[r].email,
                          password |-> BcryptHash(reqs[r].password, salt)]
          IN /\ usersFile' = Append(users, newUser)
             /\ registered' = [registered EXCEPT ![reqs[r].email] =
                    [password |-> reqs[r].password, uniqueId |-> uniqueId]]
             /\ Answer(r, 200, "Registration successful!",
                       [email |-> newUser.email, uniqueId |-> uniqueId], FALSE)
    /\ fileTouched' = TRUE
    /\ UNCHANGED <<offAccounts, dbPool, usersTable, dbQueried>>

\* a catch block that goes on to the JSON fallback instead of answering 500
PgFailFallsBack(r) ==
    /\ fileTouched' = TRUE
    /\ IF reqs[r].kind = "register" /\ ~EmailTaken(usersFile, reqs[r].email)
       THEN /\ reqs' = [reqs EXCEPT ![r].pc = "jsonHash",
                                    ![r].users = usersFile]
            /\ UNCHANGED lastResp
       ELSE Answer(r, 401, "Invalid email or password", NoUserInfo, FALSE)
    /\ UNCHANGED <<usersFile, usersTable, registered>>

\* the catch blocks of the Postgres branches, server.js:297-300, 352-355
PgFail(r) ==
    /\ Answer(r, 500,
              IF reqs[r].kind = "register"
              THEN "Failed to register user. Please try again."
              ELSE "Server error. Please try again.",
              NoUserInfo, TRUE)
    /\ UNCHANGED <<usersFile, usersTable, registered, fileTouched>>

\* server.js:260-263: await fetchDbUserByEmail(email)
PgRegisterLookup(r) ==
    /\ reqs[r].pc = "pgLookup"
    /\ dbQueried' = TRUE
    /\ \/ PgFail(r)
       \/ /\ FetchDbUserByEmail(reqs[r].email) # NoRow
          /\ Answer(r, 400, "Email already registered", NoUserInfo, FALSE)
          /\ UNCHANGED <<usersFile, usersTable, registered, fileTouched>>
       \/ /\ FetchDbUserByEmail(reqs[r].email) = NoRow
          /\ reqs' = [reqs EXCEPT ![r].pc = "pgGenId"]
          /\ UNCHANGED <<usersFile, usersTable, registered, fileTouched,
                         lastResp>>
    /\ UNCHANGED <<offAccounts, dbPool>>

\* server.js:265-266, 121-134: the awaited hash, then one round of the
\* generateDbUniqueId loop: draw an id, ask the table whether it is taken
PgRegisterGenId(r) ==
    /\ reqs[r].pc = "pgGenId"
    /\ dbQueried' = TRUE
    /\ \/ PgFail(r)
       \/ \E id \in IdDraws :
             /\ reqs' = IF \E t \in usersTable : t.unique_id = id
                        THEN reqs
                        ELSE [reqs EXCEPT ![r].pc = "pgInsert",
                                          ![r].uniqueId = id]
             /\ UNCHANGED <<usersFile, usersTable, registered, fileTouched,
                            lastResp>>
    /\ UNCHANGED <<offAccounts, dbPool>>

\* server.js:267-296: INSERT ... RETURNING *
PgRegisterInsert(r) ==
    /\ reqs[r].pc = "pgInsert"
    /\ dbQueried' = TRUE
    /\ \E salt \in Salts :
          LET row == [id |-> Cardinality(usersTable) + 1,
                      unique_id |-> reqs[r].uniqueId,
                      email |-> reqs[r].email,
                      password_hash |-> BcryptHash(reqs[r].password, salt)]
          IN \/ PgFail(r)
             \/ /\ ~InsertViolates(row)
                /\ usersTable' = usersTable \cup {row}
                /\ registered' = [registered EXCEPT ![reqs[r].email] =
                       [password |-> reqs[r].password,
                        uniqueId |-> MapDbUser(row).uniqueId]]
                /\ Answer(r, 200, "Registration successful!", MapDbUser(row),
                          FALSE)
                /\ UNCHANGED <<usersFile, fileTouched>>
    /\ UNCHANGED <<offAccounts, dbPool>>

(***************************************************************************)
(* POST /api/login, server.js:333-381 (and 1552-1579)                      *)
(***************************************************************************)
\* server.js:334-360: validation, then the synchronous read of users.json
\* a login that tells an unknown email from a wrong password
LoginRejectionTelling(cause) ==
    IF cause = "unknown"
    THEN [status |-> 404, message |-> "User not found"]
    ELSE [status |-> 401, message |-> "Invalid email or password"]

\* the answer to a login that names no user ("unknown") or whose password
\* does not match ("mismatch"): server.js:340, 343, 359, 362
LoginRejection(cause) ==
    [status |-> 401, message |-> "Invalid email or password"]

LoginBegin(r, email, password) ==
    /\ component = "accounts"
    /\ FreeSlot(r)
    /\ IF NoEmail(email) \/ NoPassword(password)
       THEN /\ AnswerAtOnce(r, "login", email, password, 400,
                            "Email and password are required")
            /\ UNCHANGED <<fileTouched>>
       ELSE IF UseDb
       THEN /\ reqs' = [reqs EXCEPT ![r] =
                   [IdleReq EXCEPT !.pc = "pgFetch", !.kind = "login",
                                   !.email = email, !.password = password]]
            /\ UNCHANGED <<lastResp, fileTouched>>
       ELSE /\ fileTouched' = TRUE
            /\ IF FindByEmail(usersFile, email) = NoUser
               THEN AnswerAtOnce(r, "login", email, password,
                                 LoginRejection("unknown").status,
                                 LoginRejection("unknown").message)
               ELSE /\ reqs' = [reqs EXCEPT ![r] =
                           [IdleReq EXCEPT !.pc = "jsonCompare",
                                           !.kind = "login",
                                           !.email = email,
                                           !.password = password,
                                           !.user = FindByEmail(usersFile,
                                                                email)]]
                    /\ UNCHANGED lastResp
    /\ UNCHANGED <<offAccounts, dbPool, usersFile, usersTable, registered,
                   dbQueried>>

\* server.js:362-380: after the awaited compare
LoginJsonFinish(r) ==
    /\ reqs[r].pc = "jsonCompare"
    /\ IF BcryptCompare(reqs[r].password, reqs[r].user.password)
       THEN Answer(r, 200, "Welcome back",
                   [email |-> reqs[r].user.email,
                    uniqueId |-> reqs[r].user.uniqueId], FALSE)
       ELSE Answer(r, LoginRejection("mismatch").status,
                   LoginRejection("mismatch").message, NoUserInfo, FALSE)
    /\ UNCHANGED <<offAccounts, dbPool, usersFile, usersTable, registered,
                   fileTouched, dbQueried>>

\* server.js:339-340: await fetchDbUserByEmail(email)
PgLoginFetch(r) ==
    /\ reqs[r].pc = "pgFetch"
    /\ dbQueried' = TRUE
    /\ \/ PgFail(r)
       \/ /\ FetchDbUserByEmail(reqs[r].email) = NoRow
          /\ Answer(r, LoginRejection("unknown").status,
                    LoginRejection("unknown").message, NoUserInfo, FALSE)
          /\ UNCHANGED <<usersFile, usersTable, registered, fileTouched>>
       \/ /\ FetchDbUserByEmail(reqs[r].email) # NoRow
          /\ reqs' = [reqs EXCEPT ![r].pc = "pgCompare",
                         ![r].row = FetchDbUserByEmail(reqs[r].email)]
          /\ UNCHANGED <<usersFile, usersTable, registered, fileTouched,
                         lastResp>>
    /\ UNCHANGED <<offAccounts, dbPool>>

\* server.js:342-351: after the awaited compare
PgLoginFinish(r) ==
    /\ reqs[r].pc = "pgCompare"
    /\ IF BcryptCompare(reqs[r].password, reqs[r].row.password_hash)
       THEN Answer(r, 200, "Welcome back", MapDbUser(reqs[r].row), FALSE)
       ELSE Answer(r, LoginRejection("mismatch").status,
                   LoginRejection("mismatch").message, NoUserInfo, FALSE)
    /\ UNCHANGED <<offAccounts, dbPool, usersFile, usersTable, registered,
                   fileTouched, dbQueried>>

(***************************************************************************)
(* The account server                                                      *)
(***************************************************************************)
\* a request arrives, its passwords drawn from P
AccountsBegin(P) ==
    \E r \in Slots, email \in EmailInputs, password \in P :
        \/ \E confirmPassword \in P, otherFields \in BOOLEAN :
              RegisterBegin(r, email, password, confirmPassword, otherFields)
        \/ LoginBegin(r, email, password)

\* an awaited promise of a request in flight settles
AccountsContinue ==
    \E r \in Slots :
        \/ RegisterJsonFinish(r)
        \/ PgRegisterLookup(r)
        \/ PgRegisterGenId(r)
        \/ PgRegisterInsert(r)
        \/ LoginJsonFinish(r)
        \/ PgLoginFetch(r)
        \/ PgLoginFinish(r)

\* requests arrive at any time; one password is enough to tell them apart
NextAccounts == AccountsBegin({ShortPw, <<>>}) \/ AccountsContinue

\* requests arrive one at a time: none while another is in flight
NextAccountsSeq ==
    \/ NoRequestInFlight /\ AccountsBegin(PasswordInputs)
    \/ AccountsContinue

(***************************************************************************)
(* The application tracker: src/public/tracker.js (the tracker page) and   *)
(* src/public/app.js:215-281 (the dashboard banner), over localStorage     *)
(***************************************************************************)
\* jobs the two lists may hold together
MaxJobs == 2

\* input events the tracker page handles
MaxEdits == 1

\* ids window.crypto.randomUUID() can return: enough for every id in use
IdPool == 3 * MaxJobs

Titles == {"Developer"}

\* new Date().toISOString(); no handler compares two readings
ClockReading == "t"

\* a variant of STATUS_OPTIONS with one more option
StatusOptionsExtra ==
    <<"saved", "applied", "interview", "offer", "rejected", "archived">>

\* STATUS_OPTIONS, tracker.js:4-10: the value of each option
STATUS_OPTIONS == <<"saved", "applied", "interview", "offer", "rejected">>

StatusValues == {STATUS_OPTIONS[k] : k \in 1..Len(STATUS_OPTIONS)}

\* the statuses the form is submitted with
FormStatuses == {"saved", "offer"}

NoteInputs == {"call back"}

DateInputs == {"2025-12-01"}

\* an entry of either list; "", 0 and <<>> stand for a missing field
JobEntry(id, title, status, loggedAt, queuedAt, nextStepDate, notes, hist) ==
    [id |-> id, title |-> title, status |-> status, loggedAt |-> loggedAt,
     queuedAt |-> queuedAt, nextStepDate |-> nextStepDate, notes |-> notes,
     stageHistory |-> hist]

StoredIds(log) == {log[k].id : k \in 1..Len(log)} \ {0}

ListIds(list) == {list[k] : k \in 1..Len(list)}

\* generateId, tracker.js:30-33: an id no entry and no rendered item has
GenerateId(used) ==
    CHOOSE g \in 1..IdPool :
        /\ g \notin used
        /\ \A h \in 1..(g - 1) : h \in used

\* normalizeEntry, tracker.js:35-56, with the id generateId would return
NormalizeEntry(item, freshId) ==
    LET loggedAt == IF item.loggedAt # "" THEN item.loggedAt
                    ELSE IF item.queuedAt # "" THEN item.queuedAt
                    ELSE ClockReading
        status == IF item.status # "" THEN item.status ELSE "applied"
        stageHistory == IF Len(item.stageHistory) > 0 THEN item.stageHistory
                        ELSE <<[status |-> status, timestamp |-> loggedAt]>>
    IN JobEntry(IF item.id # 0 THEN item.id ELSE freshId,
                IF item.title # "" THEN item.title ELSE "Untitled role",
                status, loggedAt, "", item.nextStepDate, item.notes,
                stageHistory)

RECURSIVE NormalizeFrom(_, _, _)
\* readJson(TRACKED_KEY).map(normalizeEntry) from entry k on
NormalizeFrom(log, k, used) ==
    IF k > Len(log) THEN <<>>
    ELSE LET entry == NormalizeEntry(log[k], GenerateId(used))
         IN <<entry>> \o NormalizeFrom(log, k + 1, used \cup {entry.id})

\* getTrackedJobs, tracker.js:58
GetTrackedJobs ==
    NormalizeFrom(appliedJobsLog, 1,
                  StoredIds(appliedJobsLog) \cup ListIds(trackerList))

\* renderTracked, tracker.js:85-134: one .tracker-item per job, in order
RenderTracked(log) ==
    LET jobs == NormalizeFrom(log, 1, StoredIds(log) \cup ListIds(trackerList))
    IN [k \in 1..Len(jobs) |-> jobs[k].id]

\* [...(job.stageHistory || []), { status, timestamp }]
PushStage(hist, status) ==
    Append(hist, [status |-> status, timestamp |-> ClockReading])

\* { ...job, [field]: event.target.value }, tracker.js:181-187
UpdateField(job, field, value) ==
    IF field = "status"
    THEN [job EXCEPT !.status = value,
                     !.stageHistory = PushStage(job.stageHistory, value)]
    ELSE IF field = "notes" THEN [job EXCEPT !.notes = value]
    ELSE [job EXCEPT !.nextStepDate = value]

RemoveAt(seq, k) ==
    [j \in 1..(Len(seq) - 1) |-> IF j < k THEN seq[j] ELSE seq[j + 1]]

RECURSIVE FilterOut(_, _)
\* jobs.filter((job) => job.id !== id)
FilterOut(jobs, id) ==
    IF jobs = <<>> THEN <<>>
    ELSE (IF Head(jobs).id # id THEN <<Head(jobs)>> ELSE <<>>)
         \o FilterOut(Tail(jobs), id)

\* ids are compared for equality only: the ids in use are kept renumbered in
\* the order of the entries, then of the rendered items no entry matches
RankOf(id, log, list) ==
    IF id \in StoredIds(log)
    THEN Cardinality({k \in 1..Len(log) :
             /\ log[k].id # 0
             /\ \E j \in k..Len(log) : log[j].id = id})
    ELSE Cardinality(StoredIds(log))
         + Cardinality({k \in 1..Len(list) :
               /\ list[k] \notin StoredIds(log)
               /\ \E j \in k..Len(list) : list[j] = id})

\* saveTrackedJobs, tracker.js:59, and the items trackerList then holds
SaveAndShow(log, list) ==
    /\ appliedJobsLog' =
           [k \in 1..Len(log) |->
               [log[k] EXCEPT !.id = IF @ = 0 THEN 0 ELSE RankOf(@, log, list)]]
    /\ trackerList' = [k \in 1..Len(list) |-> RankOf(list[k], log, list)]

\* DOMContentLoaded of the tracker page, tracker.js:241-242
TrackerLoad ==
    /\ component = "tracker"
    /\ SaveAndShow(appliedJobsLog, RenderTracked(appliedJobsLog))
    /\ pendingCards' = Len(pendingApplications)
    /\ UNCHANGED <<pendingApplications, edits>>
    /\ UNCHANGED <<bannerVars, offTracker>>

\* the "input" listener of trackerList, tracker.js:172-192, on item i
InputEvent(i, field, value) ==
    /\ component = "tracker"
    /\ i \in 1..Len(trackerList)
    /\ edits < MaxEdits
    /\ edits' = edits + 1
    /\ LET id == trackerList[i]
           jobs == GetTrackedJobs
           next == [k \in 1..Len(jobs) |->
                       IF jobs[k].id # id THEN jobs[k]
                       ELSE UpdateField(jobs[k], field, value)]
       IN SaveAndShow(next, IF field = "status" THEN RenderTracked(next)
                            ELSE trackerList)
    /\ UNCHANGED <<pendingApplications, pendingCards>>
    /\ UNCHANGED <<bannerVars, offTracker>>

\* the "click" listener of trackerList, tracker.js:194-203, on item i
DeleteClick(i) ==
    /\ component = "tracker"
    /\ i \in 1..Len(trackerList)
    /\ LET jobs == FilterOut(GetTrackedJobs, trackerList[i])
       IN SaveAndShow(jobs, RenderTracked(jobs))
    /\ UNCHANGED <<pendingApplications, pendingCards, edits>>
    /\ UNCHANGED <<bannerVars, offTracker>>

\* addJob, tracker.js:157-170: the list it saves
AddJob(job, status) ==
    LET jobs == GetTrackedJobs
        used == StoredIds(jobs) \cup ListIds(trackerList)
        entry == NormalizeEntry(
                     [job EXCEPT !.status = status,
                                 !.stageHistory =
                                     PushStage(job.stageHistory, status)],
                     GenerateId(used))
    IN <<entry>> \o jobs

\* the "click" listener of pendingQueue, tracker.js:205-218, on card index
PendingClick(index, action) ==
    /\ component = "tracker"
    /\ index \in 0..(pendingCards - 1)
    /\ LET queue == pendingApplications
           found == index + 1 <= Len(queue)
           rest == IF found THEN RemoveAt(queue, index + 1) ELSE queue
       IN /\ IF action = "convert" /\ found
             THEN /\ SaveAndShow(AddJob(queue[index + 1], "applied"),
                         RenderTracked(AddJob(queue[index + 1], "applied")))
             ELSE UNCHANGED <<appliedJobsLog, trackerList>>
          /\ pendingApplications' = rest
          /\ pendingCards' = Len(rest)
    /\ UNCHANGED edits
    /\ UNCHANGED <<bannerVars, offTracker>>

\* the "submit" listener of the form, tracker.js:220-239
FormSubmit(title, status, nextStepDate, notes) ==
    /\ component = "tracker"
    /\ IF title = ""
       THEN UNCHANGED <<appliedJobsLog, trackerList>>
       ELSE /\ Len(appliedJobsLog) + Len(pendingApplications) < MaxJobs
            /\ LET payload == JobEntry(0, title, status, "", "", nextStepDate,
                                       notes, <<>>)
               IN SaveAndShow(AddJob(payload, status),
                              RenderTracked(AddJob(payload, status)))
    /\ UNCHANGED <<pendingApplications, pendingCards, edits>>
    /\ UNCHANGED <<bannerVars, offTracker>>

\* renderPendingBanner, app.js:222-247: whether the banner ends hidden
RenderPendingBanner(snooze, queue) == snooze \/ queue = <<>>

\* the dashboard loads: app.js:175, then renderPendingBanner at 380
DashboardLoad ==
    /\ component = "tracker"
    /\ pendingBannerSnooze' = FALSE
    /\ bannerHidden' = RenderPendingBanner(FALSE, pendingApplications)
    /\ UNCHANGED <<appliedJobsLog, pendingApplications, trackerList,
                   pendingCards, edits>>
    /\ UNCHANGED offTracker

\* the titles of the jobs the dashboard lists
DashboardTitles == {"Developer", "Analyst"}

\* queueJobForTracker, app.js:248-254: a click on View / Apply
QueueJobForTracker(title) ==
    /\ component = "tracker"
    /\ Len(appliedJobsLog) + Len(pendingApplications) < MaxJobs
    /\ pendingApplications' =
           Append(pendingApplications,
                  JobEntry(0, title, "", "", ClockReading, "", "", <<>>))
    /\ pendingBannerSnooze' = FALSE
    /\ bannerHidden' = RenderPendingBanner(FALSE, pendingApplications')
    /\ UNCHANGED <<appliedJobsLog, trackerList, pendingCards, edits>>
    /\ UNCHANGED offTracker

\* logApplication, app.js:217-221
LogApplication(job) ==
    Append(appliedJobsLog, [job EXCEPT !.loggedAt = ClockReading])

\* a listener without a branch for the later button
SnoozesNever(action) == FALSE

\* action === "later", app.js:273
Snoozes(action) == action = "later"

\* the banner's click listener, app.js:256-280, on one of its three buttons
BannerClick(action) ==
    /\ component = "tracker"
    /\ ~bannerHidden
    /\ IF pendingApplications = <<>>
       THEN /\ bannerHidden' = TRUE
            /\ UNCHANGED <<appliedJobsLog, pendingApplications,
                           pendingBannerSnooze>>
       ELSE IF Snoozes(action)
       THEN /\ pendingBannerSnooze' = TRUE
            /\ bannerHidden' = TRUE
            /\ UNCHANGED <<appliedJobsLog, pendingApplications>>
       ELSE /\ IF action = "log"
               THEN appliedJobsLog' =
                        LogApplication(Head(pendingApplications))
               ELSE UNCHANGED appliedJobsLog
            /\ pendingApplications' = Tail(pendingApplications)
            /\ pendingBannerSnooze' = FALSE
            /\ bannerHidden' =
                   RenderPendingBanner(FALSE, pendingApplications')
    /\ UNCHANGED <<trackerList, pendingCards, edits>>
    /\ UNCHANGED offTracker

NextTracker ==
    \/ TrackerLoad
    \/ \E i \in 1..MaxJobs :
          \/ \E value \in StatusValues : InputEvent(i, "status", value)
          \/ \E value \in NoteInputs : InputEvent(i, "notes", value)
          \/ \E value \in DateInputs : InputEvent(i, "nextStepDate", value)
          \/ DeleteClick(i)
    \/ \E index \in 0..(MaxJobs - 1), action \in {"convert", "dismiss"} :
          PendingClick(index, action)
    \/ \E title \in Titles \cup {""}, status \in FormStatuses :
          FormSubmit(title, status, "", "")
    \/ DashboardLoad
    \/ \E title \in Titles : QueueJobForTracker(title)
    \/ \E action \in {"log", "later", "skip"} : BannerClick(action)

(***************************************************************************)
(* The server variants that keep a session: the Mongo variant              *)
(* (server.js:499-804), the older Mongo variant (server.js:806-958), the   *)
(* Supabase variant of server.js (960-1366) and the two Supabase variants  *)
(* of part_000 (1-754, 756-1471).  Their requests are served one at a time.*)
(***************************************************************************)
\* per-user records the variants may keep
MaxStored == 2

SessionVariants ==
    {"mongo", "mongoOld", "supabase", "supabaseA", "supabaseB"}

\* the variants of server.js:1-497 and 1368-1695, which keep no session
AccountVariants == {"pgJson", "jsonOnly"}

MongoVariants == {"mongo", "mongoOld"}

PartVariants == {"supabaseA", "supabaseB"}

\* the endpoints that serve the data of the logged-in user
PerUserRoutes ==
    {"POST /api/jobs", "GET /api/jobs", "POST /api/interviews",
     "GET /api/interviews", "GET /resumes", "POST /uploadResume",
     "POST /profile-picture", "POST /api/format-resume"}

\* the routes a variant registers: server.js:917, 929 are all the older
\* Mongo variant has of them
Serves(v, route) ==
    IF v = "mongoOld" THEN route \in {"GET /resumes", "POST /uploadResume"}
    ELSE route \in PerUserRoutes

\* whether requireLogin is in the route's chain: server.js:658-759, 1135-1304,
\* part_000:410-693, 1139-1412; not in server.js:917, 929
Guarded(v, route) == v # "mongoOld"

\* the kind of record a route reads or writes
RecordKind(route) ==
    IF route \in {"POST /api/jobs", "GET /api/jobs"} THEN "job"
    ELSE IF route \in {"POST /api/interviews", "GET /api/interviews"}
    THEN "interview"
    ELSE IF route \in {"GET /resumes", "POST /uploadResume"} THEN "resume"
    ELSE IF route = "POST /profile-picture" THEN "avatar"
    ELSE "none"

Writes(route) ==
    route \in {"POST /api/jobs", "POST /api/interviews", "POST /uploadResume",
               "POST /profile-picture"}

Reads(route) ==
    route \in {"GET /api/jobs", "GET /api/interviews", "GET /resumes"}

NoReply ==
    [route |-> "none", email |-> "", password |-> <<>>, loggedIn |-> FALSE,
     status |-> 0, redirect |-> "", success |-> FALSE, message |-> "",
     dbError |-> FALSE, ran |-> FALSE, read |-> FALSE, wrote |-> FALSE,
     items |-> {}, path |-> "", file |-> "", foundRow |-> FALSE, pic |-> ""]

\* the session holds a user: !req.session.user is false
LoggedIn == sessionUser # ""

\* res.status(status).json({ success, message })
JsonReply(route, email, password, status, success, message, dbError) ==
    [NoReply EXCEPT !.route = route, !.email = email, !.password = password,
                    !.loggedIn = LoggedIn, !.status = status,
                    !.success = success, !.message = message,
                    !.dbError = dbError, !.ran = TRUE]

\* a variant that answers a rejected login or registration with 400
RejectStatusAlways400(v) == 400

\* the status of a rejected login or registration: res.json(...) without
\* res.status in server.js:626-655, 878-915, 1031-1132; res.status(400) in
\* part_000:112-303, 855-1032
RejectStatus(v) == IF v \in PartVariants THEN 400 ELSE 200

\* "Email already exists" (server.js:630, 883, 1062), "Email already
\* registered" (part_000:154, 895)
TakenMessage(v) ==
    IF v \in PartVariants THEN "Email already registered"
    ELSE "Email already exists"

CreatedMessage(v) ==
    IF v \in PartVariants THEN "Registration successful" ELSE "Account created"

LoggedInMessage(v) ==
    IF v \in PartVariants THEN "Login successful"
    ELSE IF v = "mongoOld" THEN "Logged in successfully"
    ELSE "Logged in"

\* the status of a failed query: 500 in part_000, 200 in server.js:1031-1132
DbErrorStatus(v) == IF v \in PartVariants THEN 500 ELSE 200

\* POST /register (server.js:626-636, 878-895, 1031-1096) and
\* POST /api/register (part_000:112-206, 855-944)
SessRegister(email, password, dbFails) ==
    /\ component = "servers"
    /\ variant \in MongoVariants => ~dbFails /\ email # "" /\ password # <<>>
    /\ variant = "supabase" => email # "" /\ password # <<>>
    /\ IF variant \in PartVariants /\ (NoEmail(email) \/ NoPassword(password))
       THEN /\ reply' = JsonReply("register", email, password, 400, FALSE,
                                  "Email and password required", FALSE)
            /\ UNCHANGED userRows
       ELSE IF dbFails
       THEN /\ reply' = JsonReply("register", email, password,
                                  DbErrorStatus(variant), FALSE,
                                  "Database error", TRUE)
            /\ UNCHANGED userRows
       ELSE IF userRows[email] # NoHash
       THEN /\ reply' = JsonReply("register", email, password,
                                  RejectStatus(variant), FALSE,
                                  TakenMessage(variant), FALSE)
            /\ UNCHANGED userRows
       ELSE /\ \E salt \in Salts :
                  userRows' = [userRows EXCEPT
                                  ![email] = BcryptHash(password, salt)]
            /\ reply' = JsonReply("register", email, password, 200, TRUE,
                                  CreatedMessage(variant), FALSE)
    /\ UNCHANGED <<sessionUser, stored, rowPic, sessionPic, tmpResumes>>
    /\ UNCHANGED offSession

\* POST /login (server.js:638-655, 898-915, 1099-1132) and POST /api/login
\* (part_000:211-303, 947-1032)
SessLogin(email, password, dbFails) ==
    /\ component = "servers"
    /\ variant \in MongoVariants => ~dbFails /\ email # "" /\ password # <<>>
    /\ variant = "supabase" => email # "" /\ password # <<>>
    /\ IF variant \in PartVariants /\ (NoEmail(email) \/ NoPassword(password))
       THEN /\ reply' = JsonReply("login", email, password, 400, FALSE,
                                  "Email and password required", FALSE)
            /\ UNCHANGED <<sessionUser, sessionPic>>
       ELSE IF dbFails
       THEN /\ reply' = JsonReply("login", email, password,
                                  DbErrorStatus(variant), FALSE,
                                  IF variant = "supabase"
                                  THEN "User not found" ELSE "Database error",
                                  TRUE)
            /\ UNCHANGED <<sessionUser, sessionPic>>
       ELSE IF userRows[email] = NoHash
       THEN /\ reply' = JsonReply("login", email, password,
                                  RejectStatus(variant), FALSE,
                                  "User not found", FALSE)
            /\ UNCHANGED <<sessionUser, sessionPic>>
       ELSE IF ~BcryptCompare(password, userRows[email])
       THEN /\ reply' = JsonReply("login", email, password,
                                  RejectStatus(variant), FALSE,
                                  "Incorrect password", FALSE)
            /\ UNCHANGED <<sessionUser, sessionPic>>
       ELSE /\ sessionUser' = email
            /\ sessionPic' = rowPic[email]
            /\ reply' = [JsonReply("login", email, password, 200, TRUE,
                                   LoggedInMessage(variant), FALSE)
                             EXCEPT !.pic = rowPic[email]]
    /\ UNCHANGED <<userRows, stored, rowPic, tmpResumes>>
    /\ UNCHANGED offSession

\* GET /logout: server.js:581-585, 1008-1012, part_000:401-405, 1132-1136;
\* the older Mongo variant has no such route
Logout ==
    /\ component = "servers"
    /\ variant # "mongoOld"
    /\ sessionUser' = ""
    /\ sessionPic' = ""
    /\ reply' = [NoReply EXCEPT !.route = "GET /logout",
                                !.loggedIn = LoggedIn, !.status = 200,
                                !.success = TRUE, !.ran = TRUE]
    /\ UNCHANGED <<userRows, stored, rowPic, tmpResumes>>
    /\ UNCHANGED offSession

\* requireLogin: server.js:568-571, 995-998 (redirect), part_000:90-95,
\* 839-844 (401)
RequireLoginRejects(route) ==
    IF variant \in PartVariants
    THEN [NoReply EXCEPT !.route = route, !.status = 401,
                         !.message = "Not logged in"]
    ELSE [NoReply EXCEPT !.route = route, !.status = 302,
                         !.redirect = "/login.html"]

\* the owner recorded with a record: GridFS files carry none
\* (server.js:596-604, 850-860)
OwnerOf(route) ==
    IF variant \in MongoVariants /\ RecordKind(route) = "resume" THEN ""
    ELSE sessionUser

\* the records a GET handler answers with: gfs.find() lists every file
\* (server.js:680-687, 929-936), the other queries filter by the user
Visible(route) ==
    {s \in stored :
        /\ s.kind = RecordKind(route)
        /\ \/ variant \in MongoVariants /\ s.kind = "resume"
           \/ s.owner = sessionUser}

\* the handlers modelled step by step below
InDetail(v, route) ==
    \/ v \in PartVariants /\ route = "POST /uploadResume"
    \/ v \in PartVariants \cup {"supabase"} /\ route = "POST /profile-picture"

\* a request to a per-user endpoint; hasBody: the file or text it needs
PerUserRequest(route, hasBody) ==
    /\ component = "servers"
    /\ Serves(variant, route)
    /\ ~InDetail(variant, route)
    /\ IF Guarded(variant, route) /\ ~LoggedIn
       THEN /\ reply' = RequireLoginRejects(route)
            /\ UNCHANGED stored
       ELSE LET record == [kind |-> RecordKind(route), owner |-> OwnerOf(route),
                           by |-> sessionUser]
                writes == Writes(route) /\ hasBody
            IN /\ writes /\ record \notin stored =>
                      Cardinality(stored) < MaxStored
               /\ stored' = IF writes THEN stored \cup {record} ELSE stored
               /\ reply' = [NoReply EXCEPT
                      !.route = route, !.loggedIn = LoggedIn, !.status = 200,
                      !.success = hasBody \/ Reads(route), !.ran = TRUE,
                      !.read = Reads(route), !.wrote = writes,
                      !.items = IF Reads(route) THEN Visible(route) ELSE {}]
    /\ UNCHANGED <<userRows, sessionUser, rowPic, sessionPic, tmpResumes>>
    /\ UNCHANGED offSession

\* the name multer gives an uploaded resume in tmp/resumes
\* (part_000:77-84, 828-834)
TmpNames == {"r1"}

\* "/profile/" + req.file.filename (part_000:418, 1148; server.js:1138)
Pics == {"/profile/1.png"}

\* the ways the storage upload ends: no error, { error }, or an exception
UploadOutcomes == {"ok", "error", "throws"}

\* an upload that removes the temp file whatever the outcome is
UnlinkedAlways(outcome) == TRUE

\* fs.unlinkSync(localPath) stands after the awaited upload and inside the
\* try (part_000:470, 1198): it runs unless the upload threw
Unlinked(outcome) == outcome # "throws"

\* POST /uploadResume of the variants of part_000 (448-495, 1176-1224)
UploadResume(hasFile, name, outcome) ==
    /\ component = "servers"
    /\ variant \in PartVariants
    /\ IF ~LoggedIn
       THEN /\ reply' = RequireLoginRejects("POST /uploadResume")
            /\ UNCHANGED <<stored, tmpResumes>>
       ELSE IF ~hasFile
       THEN /\ reply' = JsonReply("POST /uploadResume", "", <<>>, 200, FALSE,
                                  "No file uploaded", FALSE)
            /\ UNCHANGED <<stored, tmpResumes>>
       ELSE LET record == [kind |-> "resume", owner |-> sessionUser,
                           by |-> sessionUser]
            IN /\ outcome = "ok" /\ record \notin stored =>
                      Cardinality(stored) < MaxStored
               /\ tmpResumes' = IF Unlinked(outcome)
                                THEN tmpResumes \ {name}
                                ELSE tmpResumes \cup {name}
               /\ stored' = IF outcome = "ok" THEN stored \cup {record}
                            ELSE stored
               /\ reply' = [JsonReply("POST /uploadResume", "", <<>>, 200,
                                      outcome = "ok",
                                      IF outcome = "ok"
                                      THEN "Resume uploaded successfully"
                                      ELSE IF outcome = "error"
                                      THEN "Error uploading resume"
                                      ELSE "Server error", FALSE)
                                EXCEPT !.file = name,
                                       !.wrote = (outcome = "ok")]
    /\ UNCHANGED <<userRows, sessionUser, rowPic, sessionPic>>
    /\ UNCHANGED offSession

\* whether POST /profile-picture stops at an error of the update: only
\* server.js:1145-1148 returns, part_000:427-429, 1157-1159 log and go on
StopsOnUpdateError(v) == v = "supabase"

\* POST /profile-picture of the Supabase variants (server.js:1135-1154,
\* part_000:410-443, 1139-1173)
ProfilePicture(hasFile, path, dbFails) ==
    /\ component = "servers"
    /\ variant \in PartVariants \cup {"supabase"}
    /\ IF ~LoggedIn
       THEN /\ reply' = RequireLoginRejects("POST /profile-picture")
            /\ UNCHANGED <<rowPic, sessionPic>>
       ELSE IF ~hasFile
       THEN /\ reply' = JsonReply("POST /profile-picture", "", <<>>, 200,
                                  FALSE, "Upload failed", FALSE)
            /\ UNCHANGED <<rowPic, sessionPic>>
       ELSE IF dbFails /\ StopsOnUpdateError(variant)
       THEN /\ reply' = JsonReply("POST /profile-picture", "", <<>>, 200,
                                  FALSE, "Could not update profile", TRUE)
            /\ UNCHANGED <<rowPic, sessionPic>>
       ELSE /\ rowPic' = IF dbFails THEN rowPic
                         ELSE [rowPic EXCEPT ![sessionUser] = path]
            /\ sessionPic' = path
            /\ reply' = [JsonReply("POST /profile-picture", "", <<>>, 200,
                                   TRUE, "Profile picture updated", dbFails)
                             EXCEPT !.path = path, !.wrote = ~dbFails]
    /\ UNCHANGED <<userRows, sessionUser, stored, tmpResumes>>
    /\ UNCHANGED offSession

\* a || b || null on paths, "" standing for null
OrElse(a, b) == IF a # "" THEN a ELSE b

\* a check-session that takes the column as it is
ColumnOnly(column, kept) == column

\* getField(u, ...) || req.session.user.profilePicPath || null
\* (part_000:367-370, 1095-1098)
ProfilePicPath(column, kept) == OrElse(column, kept)

\* GET /check-session of the variants of part_000 (308-396, 1035-1129)
CheckSession(dbFails) ==
    /\ component = "servers"
    /\ variant \in PartVariants
    /\ IF ~LoggedIn
       THEN /\ reply' = [NoReply EXCEPT !.route = "GET /check-session",
                                        !.status = 200, !.ran = TRUE]
            /\ UNCHANGED sessionPic
       ELSE IF dbFails \/ userRows[sessionUser] = NoHash
       THEN /\ reply' = [NoReply EXCEPT !.route = "GET /check-session",
                                        !.status = 200, !.ran = TRUE,
                                        !.loggedIn = TRUE, !.dbError = dbFails,
                                        !.email = sessionUser,
                                        !.pic = sessionPic]
            /\ UNCHANGED sessionPic
       ELSE /\ sessionPic' = ProfilePicPath(rowPic[sessionUser], sessionPic)
            /\ reply' = [NoReply EXCEPT
                   !.route = "GET /check-session", !.status = 200,
                   !.ran = TRUE, !.loggedIn = TRUE, !.foundRow = TRUE,
                   !.email = sessionUser,
                   !.pic = ProfilePicPath(rowPic[sessionUser], sessionPic)]
    /\ UNCHANGED <<userRows, sessionUser, stored, rowPic, tmpResumes>>
    /\ UNCHANGED offSession

(***************************************************************************)
(* getField, part_000:98-103 and part_000:847-852                          *)
(***************************************************************************)
\* names a call may list
MaxNames == 2

\* JavaScript values
Undefined == "undefined"

Null == "null"

\* falsy values that are neither undefined nor null
FalsyValues == {"0", "''", "false"}

JsValues == {Undefined, Null} \cup FalsyValues \cup {"'Ann'"}

\* the spellings of one column: camelCase, snake_case, lowercase
FieldNames == {"firstName", "first_name", "firstname"}

\* a row object with the properties a call may name; Undefined: no such
\* property
Rows == {[type |-> "object", props |-> r] : r \in [FieldNames -> JsValues]}

NoObject == [type |-> Null, props |-> [n \in FieldNames |-> Undefined]]

\* null and undefined in the place of the row
NoObjects == {NoObject, [NoObject EXCEPT !.type = Undefined]}

NotCalled == [first |-> "none", second |-> "none", obj |-> NoObject]

\* a value in a condition
Truthy(v) == v \notin ({Undefined, Null} \cup FalsyValues)

\* obj in a condition: a row is truthy, null and undefined are not
TruthyObj(o) == o.type = "object"

\* obj[n]
Prop(o, n) == o.props[n]

RECURSIVE GetFieldFirst(_, _, _)
\* part_000:98-103: obj && obj[n] !== undefined && obj[n] !== null
GetFieldFirst(o, ns, k) ==
    IF k > Len(ns) THEN Null
    ELSE IF TruthyObj(o) /\ Prop(o, ns[k]) # Undefined /\ Prop(o, ns[k]) # Null
    THEN Prop(o, ns[k])
    ELSE GetFieldFirst(o, ns, k + 1)

\* v != null: loose inequality, false for null and for undefined only
LooseNotNull(v) == v \notin {Null, Undefined}

RECURSIVE GetFieldTruthy(_, _, _)
\* a definition that tests obj[n] for truthiness
GetFieldTruthy(o, ns, k) ==
    IF k > Len(ns) THEN Null
    ELSE IF TruthyObj(o) /\ Truthy(Prop(o, ns[k])) THEN Prop(o, ns[k])
    ELSE GetFieldTruthy(o, ns, k + 1)

RECURSIVE GetFieldSecond(_, _, _)
\* part_000:847-852: obj && obj[n] != null
GetFieldSecond(o, ns, k) ==
    IF k > Len(ns) THEN Null
    ELSE IF TruthyObj(o) /\ LooseNotNull(Prop(o, ns[k])) THEN Prop(o, ns[k])
    ELSE GetFieldSecond(o, ns, k + 1)

NameLists == UNION {[1..n -> FieldNames] : n \in 0..MaxNames}

\* one call of each definition on the same arguments; neither assigns to obj
GetFieldCall ==
    /\ component = "getField"
    /\ returned = NotCalled
    /\ returned' = [first |-> GetFieldFirst(obj, names, 1),
                    second |-> GetFieldSecond(obj, names, 1),
                    obj |-> obj]
    /\ UNCHANGED <<obj, names>>
    /\ UNCHANGED offField

(***************************************************************************)
(* The job list: GET /api/jobs of the Postgres/JSON variant                *)
(* (server.js:216-238, 471-484) and fetchJobs of the dashboard page        *)
(* (app.js:173-200, 339-381)                                               *)
(***************************************************************************)
\* GET /api/jobs requests one page may issue
MaxRequests == 3

\* jobs.slice(0, 20), server.js:223
LiveLimit == 20

\* the lengths of payload.jobs
LiveCounts == {0, 1, LiveLimit, LiveLimit + 1}

\* the tags of the jobs of the feed, and tag.toLowerCase()
LowerCase(tag) == IF tag = "SQL" THEN "sql" ELSE tag

\* job k of the feed, as Remotive sends it
RawJob(k) ==
    [title |-> k, company_name |-> "Acme",
     candidate_required_location |-> IF k = 1 THEN "" ELSE "Europe",
     location |-> "", tags |-> <<"SQL", "go">>]

\* what the fetch of the feed gives: it throws, answers a non-OK status, or
\* answers a payload with n jobs
Feeds ==
    {[outcome |-> "throws", jobs |-> <<>>],
     [outcome |-> "notOk", jobs |-> <<>>]}
    \cup {[outcome |-> "ok", jobs |-> [k \in 1..n |-> RawJob(k)]] :
             n \in LiveCounts}

\* the entries of public/jobs.json when the file exists
LocalJobs == {<<>>, <<[title |-> 0, company |-> "Local",
                      location |-> "Atlanta", keywords |-> <<"sql">>]>>}

\* public/jobs.json: absent, or a file that holds an array
JobsFiles == {[exists |-> FALSE, jobs |-> <<>>]}
             \cup {[exists |-> TRUE, jobs |-> j] : j \in LocalJobs}

\* a mapping that keeps every job of the payload
MapAllJobs(jobs) ==
    [k \in 1..Len(jobs) |->
        [title |-> jobs[k].title, company |-> jobs[k].company_name,
         location |-> "Remote", keywords |-> jobs[k].tags]]

\* jobs.slice(0, 20).map(...), server.js:223-237
MapLiveJobs(jobs) ==
    [k \in 1..Min(Len(jobs), LiveLimit) |->
        [title |-> jobs[k].title,
         company |-> jobs[k].company_name,
         location |-> IF jobs[k].candidate_required_location # ""
                      THEN jobs[k].candidate_required_location
                      ELSE IF jobs[k].location # "" THEN jobs[k].location
                      ELSE "Remote",
         keywords |-> [t \in 1..Len(jobs[k].tags) |->
                          LowerCase(jobs[k].tags[t])]]]

\* fetchLiveJobs, server.js:216-238: the list, or "throws"
FetchLiveJobs(feed) ==
    IF feed.outcome = "ok" THEN MapLiveJobs(feed.jobs) ELSE "throws"

\* the fallback of GET /api/jobs, server.js:481-483
FallbackJobs == IF jobsFile.exists THEN jobsFile.jobs ELSE <<>>

\* GET /api/jobs, server.js:471-484: the response
ApiJobs(feed) ==
    IF feed.outcome = "ok" /\ Len(MapLiveJobs(feed.jobs)) > 0
    THEN [status |-> 200, body |-> FetchLiveJobs(feed), feed |-> feed]
    ELSE [status |-> 200, body |-> FallbackJobs, feed |-> feed]

NoApiReply == [status |-> 0, body |-> <<>>,
               feed |-> [outcome |-> "none", jobs |-> <<>>]]

NoUse == [caller |-> "none", fresh |-> FALSE, jobs |-> <<>>]

\* the callers of fetchJobs: the initial load and the filter button
Callers == {"load", "filter"}

\* if (cachedJobs) ...: an array is truthy even when it is empty
CacheHitTruthy(list) == TRUE

\* if (cachedJobs.length) ..., app.js:195
CacheHit(list) == Len(list) > 0

\* fetchJobs, app.js:195-197, up to the request: a list kept from an earlier
\* answer is handed over, a request is issued otherwise
FetchJobsCall(caller) ==
    IF CacheHit(cachedJobs)
    THEN /\ lastUse' = [caller |-> caller, fresh |-> FALSE,
                        jobs |-> cachedJobs]
         /\ UNCHANGED <<awaiting, requests>>
    ELSE /\ caller \notin awaiting
         /\ requests < MaxRequests
         /\ awaiting' = awaiting \cup {caller}
         /\ requests' = requests + 1
         /\ UNCHANGED lastUse

\* the dashboard page is loaded: app.js:173, and the initial load of 373
JobsPageLoad ==
    /\ component = "jobs"
    /\ requests < MaxRequests
    /\ cachedJobs' = <<>>
    /\ awaiting' = {"load"}
    /\ requests' = requests + 1
    /\ lastUse' = NoUse
    /\ UNCHANGED <<jobsFile, apiReply>>
    /\ UNCHANGED offJobs

\* a click on the filter button, app.js:339-370
FilterClick(hasKeywords) ==
    /\ component = "jobs"
    /\ requests > 0
    /\ IF hasKeywords THEN FetchJobsCall("filter")
       ELSE UNCHANGED <<awaiting, requests, lastUse>>
    /\ UNCHANGED <<jobsFile, apiReply, cachedJobs>>
    /\ UNCHANGED offJobs

\* the server answers the request of a caller, app.js:197-199
FetchArrives(caller, feed) ==
    /\ component = "jobs"
    /\ caller \in awaiting
    /\ apiReply' = ApiJobs(feed)
    /\ cachedJobs' = ApiJobs(feed).body
    /\ awaiting' = awaiting \ {caller}
    /\ lastUse' = [caller |-> caller, fresh |-> TRUE,
                   jobs |-> ApiJobs(feed).body]
    /\ UNCHANGED <<jobsFile, requests>>
    /\ UNCHANGED offJobs

\* the request of a caller fails: fetch rejects and nothing is rendered
FetchFails(caller) ==
    /\ component = "jobs"
    /\ caller \in awaiting
    /\ awaiting' = awaiting \ {caller}
    /\ UNCHANGED <<jobsFile, apiReply, cachedJobs, requests, lastUse>>
    /\ UNCHANGED offJobs

(***************************************************************************)
(* Specifications                                                          *)
(***************************************************************************)
TrackerStart ==
    /\ appliedJobsLog = <<>>
    /\ pendingApplications = <<>>
    /\ trackerList = <<>>
    /\ pendingCards = 0
    /\ edits = 0
    /\ pendingBannerSnooze = FALSE
    /\ bannerHidden = TRUE

AccountsStart ==
    /\ usersFile = <<>>
    /\ usersTable = {}
    /\ reqs = [r \in Slots |-> IdleReq]
    /\ lastResp = NoResp
    /\ registered = [e \in Emails |-> NotRegistered]
    /\ fileTouched = FALSE
    /\ dbQueried = FALSE

JobsStart ==
    /\ jobsFile = [exists |-> FALSE, jobs |-> <<>>]
    /\ apiReply = NoApiReply
    /\ cachedJobs = <<>>
    /\ awaiting = {}
    /\ requests = 0
    /\ lastUse = NoUse

SessionStart ==
    /\ userRows = [e \in Emails |-> NoHash]
    /\ sessionUser = ""
    /\ stored = {}
    /\ reply = NoReply
    /\ rowPic = [e \in Emails |-> ""]
    /\ sessionPic = ""
    /\ tmpResumes = {}

FieldStart ==
    /\ obj = NoObject
    /\ names = <<>>
    /\ returned = NotCalled

InitAccounts ==
    /\ component = "accounts"
    /\ variant = "pgJson"
    /\ dbPool \in BOOLEAN
    /\ AccountsStart
    /\ TrackerStart
    /\ SessionStart
    /\ FieldStart
    /\ JobsStart

SpecAccounts == InitAccounts /\ [][NextAccounts]_vars

SpecAccountsSeq == InitAccounts /\ [][NextAccountsSeq]_vars

InitTracker ==
    /\ component = "tracker"
    /\ variant = "pgJson"
    /\ dbPool = FALSE
    /\ AccountsStart
    /\ TrackerStart
    /\ SessionStart
    /\ FieldStart
    /\ JobsStart

SpecTracker == InitTracker /\ [][NextTracker]_vars

\* the dashboard banner and the pending list of the tracker page, with jobs
\* that differ
NextBanner ==
    \/ TrackerLoad
    \/ \E index \in 0..(MaxJobs - 1), action \in {"convert", "dismiss"} :
          PendingClick(index, action)
    \/ DashboardLoad
    \/ \E title \in DashboardTitles : QueueJobForTracker(title)
    \/ \E action \in {"log", "later", "skip"} : BannerClick(action)

SpecBanner == InitTracker /\ [][NextBanner]_vars

\* any variant runs; only server.js:1-497 can have a pool
InitServers ==
    /\ variant \in SessionVariants \cup AccountVariants
    /\ component = IF variant \in SessionVariants THEN "servers"
                   ELSE "accounts"
    /\ dbPool \in BOOLEAN
    /\ dbPool => variant = "pgJson"
    /\ AccountsStart
    /\ TrackerStart
    /\ SessionStart
    /\ FieldStart
    /\ JobsStart

NextServers ==
    \/ NoRequestInFlight /\ AccountsBegin({ShortPw, LongPwX, <<>>})
    \/ AccountsContinue
    \/ \E email \in EmailInputs, password \in {ShortPw, <<>>},
          dbFails \in BOOLEAN : SessRegister(email, password, dbFails)
    \/ \E email \in EmailInputs, password \in {ShortPw, LongPwX, <<>>},
          dbFails \in BOOLEAN : SessLogin(email, password, dbFails)
    \/ Logout
    \/ \E route \in PerUserRoutes, hasBody \in BOOLEAN :
          PerUserRequest(route, hasBody)
    \/ \E hasFile \in BOOLEAN, name \in TmpNames, outcome \in UploadOutcomes :
          UploadResume(hasFile, name, outcome)
    \/ \E hasFile \in BOOLEAN, path \in Pics, dbFails \in BOOLEAN :
          ProfilePicture(hasFile, path, dbFails)
    \/ \E dbFails \in BOOLEAN : CheckSession(dbFails)

SpecServers == InitServers /\ [][NextServers]_vars

\* the arguments of the call: a row, null or undefined, and the names
InitGetField ==
    /\ component = "getField"
    /\ variant = "supabaseA"
    /\ dbPool = FALSE
    /\ AccountsStart
    /\ TrackerStart
    /\ SessionStart
    /\ obj \in Rows \cup NoObjects
    /\ names \in NameLists
    /\ returned = NotCalled
    /\ JobsStart

NextGetField == GetFieldCall

SpecGetField == InitGetField /\ [][NextGetField]_vars

\* public/jobs.json exists or not; no page is open yet
InitJobs ==
    /\ component = "jobs"
    /\ variant = "pgJson"
    /\ dbPool = FALSE
    /\ AccountsStart
    /\ TrackerStart
    /\ SessionStart
    /\ FieldStart
    /\ jobsFile \in JobsFiles
    /\ apiReply = NoApiReply
    /\ cachedJobs = <<>>
    /\ awaiting = {}
    /\ requests = 0
    /\ lastUse = NoUse

NextJobs ==
    \/ JobsPageLoad
    \/ \E hasKeywords \in BOOLEAN : FilterClick(hasKeywords)
    \/ \E caller \in Callers, feed \in Feeds : FetchArrives(caller, feed)
    \/ \E caller \in Callers : FetchFails(caller)

SpecJobs == InitJobs /\ [][NextJobs]_vars

(***************************************************************************)
(* Claims about the account server                                         *)
(***************************************************************************)
InFile(e) == \E i \in 1..Len(usersFile) : usersFile[i].email = e

\* C1: in JSON-file mode every registration answered 'Registration
\* successful!' leaves its user stored in users.json from then on, also with
\* several register requests in flight at once.
C1_AcceptedStaysStored ==
    ~dbPool => \A e \in Emails : registered[e] # NotRegistered => InFile(e)

\* C2: no two stored users have the same email, neither two records of
\* users.json nor two rows of the users table, however the register requests
\* interleave.
C2_EmailsUnique ==
    /\ \A i, j \in 1..Len(usersFile) :
          i # j => usersFile[i].email # usersFile[j].email
    /\ \A s, t \in usersTable : s # t => s.email # t.email

\* C2's case: a row with an email is stored while another register request
\* for the same email has passed its lookup and is about to insert.
C2_Witness ==
    \E r \in Slots :
        /\ reqs[r].pc = "pgInsert"
        /\ \E t \in usersTable : t.email = reqs[r].email

\* C3: in JSON-file mode the id values of the records of users.json are
\* pairwise distinct, their uniqueId values are pairwise distinct, and each
\* uniqueId lies in 10000000..99999999.
C3_IdsUnique ==
    /\ \A i, j \in 1..Len(usersFile) :
          i # j => /\ usersFile[i].id # usersFile[j].id
                   /\ usersFile[i].uniqueId # usersFile[j].uniqueId
    /\ \A i \in 1..Len(usersFile) :
          usersFile[i].uniqueId \in 10000000..99999999

\* C3's case: two users are stored while a register request that read the
\* file before either was written is still in flight.
C3_Witness ==
    /\ Len(usersFile) = 2
    /\ \E r \in Slots : reqs[r].pc = "jsonHash" /\ reqs[r].users = <<>>

\* C6: with a database URL set, register and login touch the users table
\* only and never users.json, also when a query fails (answered 500, nothing
\* stored in the file); without one they touch users.json only.
C6_BackendSelection ==
    /\ dbPool => ~fileTouched /\ usersFile = <<>>
    /\ ~dbPool => ~dbQueried /\ usersTable = {}
    /\ lastResp.dbError => dbPool /\ lastResp.status = 500
    /\ \A e \in Emails :
          registered[e] # NotRegistered =>
              IF dbPool THEN \E t \in usersTable : t.email = e
              ELSE ~\E t \in usersTable : t.email = e

\* C6's case: a query has failed after a user was stored in the table.
C6_Witness ==
    /\ dbPool
    /\ lastResp.dbError
    /\ usersTable # {}

\* C8: with no other request in flight (JSON-file mode), after a successful
\* registration of (e, p) the stored record holds a hash and not p, a login
\* with (e, p) succeeds and returns the email and uniqueId the registration
\* returned, and a login with e and any other password is rejected.
C8_RoundTrip ==
    ~dbPool =>
        /\ \A e \in Emails :
              registered[e] # NotRegistered =>
                  /\ InFile(e)
                  /\ FindByEmail(usersFile, e).password # registered[e].password
                  /\ FindByEmail(usersFile, e).password[1] = HashMark
        /\ (lastResp.kind = "login" /\ lastResp.email \in Emails) =>
              LET reg == registered[lastResp.email]
              IN reg # NotRegistered =>
                    IF lastResp.password = reg.password
                    THEN /\ lastResp.status = 200
                         /\ lastResp.user = [email |-> lastResp.email,
                                             uniqueId |-> reg.uniqueId]
                    ELSE lastResp.status \in {400, 401}

(***************************************************************************)
(* Claims about the application tracker                                    *)
(***************************************************************************)
\* what the tracker shows of an entry: every field but the id
Shown(job) == [job EXCEPT !.id = 0]

\* item i's entry has the status value, its history has grown by one entry
\* {status: value, timestamp} at the end, every other entry is as it was
StatusRecorded(i, value) ==
    LET before == GetTrackedJobs
        after == appliedJobsLog'
    IN /\ Len(after) = Len(before)
       /\ i <= Len(before)
       /\ after[i].status = value
       /\ after[i].stageHistory = PushStage(before[i].stageHistory, value)
       /\ \A k \in 1..Len(before) :
              k # i => Shown(after[k]) = Shown(before[k])

\* C4: changing the status select of a rendered tracker item sets the status
\* of the entry shown in that item, and of no other, to the chosen value and
\* appends one {status, timestamp} entry to that entry's stageHistory, its
\* earlier entries and every other tracked job unchanged; this holds for
\* entries written by logApplication, which stores no id, as well
C4_StatusChangeRecorded ==
    [][\A i \in 1..MaxJobs, value \in StatusValues :
          InputEvent(i, "status", value) => StatusRecorded(i, value)]_vars

\* the steps saved -> applied -> interview -> offer / rejected
ForwardSteps ==
    {<<"saved", "applied">>, <<"applied", "interview">>,
     <<"interview", "offer">>, <<"interview", "rejected">>}

\* C5 as stated: every status change the tracker accepts moves the job one
\* step along saved -> applied -> interview -> offer / rejected, never
\* backward, never skipping a stage, never out of offer or rejected
C5_ForwardOnly ==
    [][\A i \in 1..MaxJobs, value \in StatusValues :
          InputEvent(i, "status", value) =>
              LET old == GetTrackedJobs[i].status
                  new == appliedJobsLog'[i].status
              IN old # new => <<old, new>> \in ForwardSteps]_vars

\* C5 as the tracker behaves: every status change it accepts leaves the job
\* with one of the five statuses saved, applied, interview, offer, rejected;
\* no order among them is enforced
C5_AnyOfTheFive ==
    [][\A i \in 1..MaxJobs, value \in StatusValues :
          InputEvent(i, "status", value) =>
              appliedJobsLog'[i].status \in
                  {"saved", "applied", "interview", "offer", "rejected"}]_vars

\* a job has been moved from offer back to saved
C5_Witness ==
    \E k \in 1..Len(appliedJobsLog) :
        LET h == appliedJobsLog[k].stageHistory
        IN /\ Len(h) >= 2
           /\ h[Len(h) - 1].status = "offer"
           /\ h[Len(h)].status = "saved"
           /\ appliedJobsLog[k].status = "saved"

(***************************************************************************)
(* Claims about the server variants                                        *)
(***************************************************************************)
\* C7: in every variant that keeps a session, a request to a per-user
\* endpoint that arrives while the session holds no logged-in user (before
\* the first login, after GET /logout) is rejected with 401 or a redirect to
\* /login.html, its handler does not run and it neither reads nor changes
\* stored data
C7_GuardedEndpoints ==
    reply.route \in PerUserRoutes /\ ~reply.loggedIn =>
        /\ reply.status = 401 \/ reply.redirect = "/login.html"
        /\ ~reply.ran
        /\ ~reply.read
        /\ ~reply.wrote

\* the last response rejects a login that named an email and a password:
\* no user is logged in and no query failed
RejectedLogin ==
    \/ /\ component = "accounts"
       /\ lastResp.kind = "login"
       /\ lastResp.email # "" /\ lastResp.password # <<>>
       /\ lastResp.user = NoUserInfo /\ ~lastResp.dbError
    \/ /\ component = "servers"
       /\ reply.route = "login"
       /\ reply.email # "" /\ reply.password # <<>>
       /\ ~reply.success /\ ~reply.dbError

\* the last response rejects a registration: no user is created and no query
\* failed
RejectedRegistration ==
    \/ /\ component = "accounts"
       /\ lastResp.kind = "register"
       /\ lastResp.user = NoUserInfo /\ ~lastResp.dbError
    \/ /\ component = "servers"
       /\ reply.route = "register"
       /\ ~reply.success /\ ~reply.dbError

\* the status and the message of the last login or registration response
AnsweredStatus ==
    IF component = "accounts" THEN lastResp.status ELSE reply.status

AnsweredMessage ==
    IF component = "accounts" THEN lastResp.message ELSE reply.message

\* C9 as stated: every variant answers a rejected login and a rejected
\* registration with a 4xx status and a message, and with the same status
\* for the same cause: 401 and 400, the codes of the Postgres/JSON variant
C9_UniformErrors ==
    /\ RejectedLogin =>
           /\ AnsweredStatus \in 400..499
           /\ AnsweredStatus = 401
           /\ AnsweredMessage # ""
    /\ RejectedRegistration =>
           /\ AnsweredStatus \in 400..499
           /\ AnsweredStatus = 400
           /\ AnsweredMessage # ""

\* C9 as the variants behave: every variant answers a rejected login and a
\* rejected registration with a body that carries a message; the status is
\* 401 (login) and 400 (registration) in the Postgres/JSON and JSON-only
\* variants, 400 for both in the two variants of part_000, and 200 for both
\* in the Mongo variants and the Supabase variant of server.js
C9_MessageAndVariantStatus ==
    /\ RejectedLogin =>
           /\ AnsweredMessage # ""
           /\ AnsweredStatus =
                  IF variant \in {"pgJson", "jsonOnly"} THEN 401
                  ELSE IF variant \in {"supabaseA", "supabaseB"} THEN 400
                  ELSE 200
    /\ RejectedRegistration =>
           /\ AnsweredMessage # ""
           /\ AnsweredStatus =
                  IF variant \in {"mongo", "mongoOld", "supabase"} THEN 200
                  ELSE 400

\* the Mongo variant has rejected a wrong password with HTTP 200
C9_Witness ==
    /\ variant = "mongo"
    /\ RejectedLogin
    /\ reply.message = "Incorrect password"
    /\ reply.status = 200

(***************************************************************************)
(* Claims about getField                                                   *)
(***************************************************************************)
\* the first listed name whose value in the row is neither undefined nor null
FirstSet(o, ns) ==
    {k \in 1..Len(ns) :
        /\ Prop(o, ns[k]) \notin {Undefined, Null}
        /\ \A j \in 1..(k - 1) : Prop(o, ns[j]) \in {Undefined, Null}}

\* C10: the two definitions of getField return the same value on the same
\* arguments: obj[n] of the first name n whose value in obj is neither
\* undefined nor null, falsy values included, and null when there is no such
\* name or obj is null or undefined; obj is left as it was
C10_GetFieldAgrees ==
    returned # NotCalled =>
        /\ returned.first = returned.second
        /\ returned.first =
               IF obj.type = "object" /\ FirstSet(obj, names) # {}
               THEN Prop(obj, names[CHOOSE k \in FirstSet(obj, names) : TRUE])
               ELSE Null
        /\ returned.obj = obj

\* a call has skipped a name whose value is null or undefined and returned
\* the falsy value of the next name
C10_Witness ==
    /\ returned # NotCalled
    /\ Len(names) = 2
    /\ obj.type = "object"
    /\ Prop(obj, names[1]) \in {Undefined, Null}
    /\ returned.first \in FalsyValues
    /\ returned.first = Prop(obj, names[2])

C12_ResumesPerUser ==
    reply.route = "GET /resumes" /\ reply.ran /\ reply.loggedIn =>
        \A file \in reply.items : file.by = sessionUser

\* C13: when a POST /uploadResume that carried a file is answered in the
\* variants of part_000, the temp file multer wrote for it under tmp/resumes
\* no longer exists, whether the storage upload succeeded, returned an error
\* or threw
C13_TempFileRemoved ==
    reply.route = "POST /uploadResume" /\ reply.file # "" =>
        reply.file \notin tmpResumes

\* C14: after GET /check-session has found the user's row and answered
\* loggedIn: true, the profile picture of req.session.user and of the
\* returned user equal the profile picture column of that row, whatever
\* login, profile-picture and check-session requests came before
C14_SessionInSync ==
    reply.route = "GET /check-session" /\ reply.foundRow =>
        /\ sessionPic = rowPic[sessionUser]
        /\ reply.pic = rowPic[sessionUser]

\* C15: a POST /profile-picture answered success: true with a path leaves
\* that path in the users row of the session user; one whose database update
\* fails is answered success: false and leaves the session's profilePicPath
\* as it was
C15_PictureSaved ==
    [][\A hasFile \in BOOLEAN, path \in Pics, dbFails \in BOOLEAN :
          ProfilePicture(hasFile, path, dbFails) =>
              /\ reply'.success /\ reply'.path # "" =>
                     rowPic'[sessionUser] = reply'.path
              /\ LoggedIn /\ hasFile /\ dbFails =>
                     /\ ~reply'.success
                     /\ sessionPic' = sessionPic]_vars

C18_LoginDoesNotReveal ==
    /\ component = "accounts"
    /\ variant = "pgJson"
    /\ lastResp.kind = "login"
    /\ lastResp.email # "" /\ lastResp.password # <<>>
    /\ lastResp.user = NoUserInfo
    /\ ~lastResp.dbError
    => /\ lastResp.status = 401
       /\ lastResp.message = "Invalid email or password"

\* a login with an email that no stored user has was rejected, while the
\* other email is registered
C18_Witness ==
    /\ lastResp.kind = "login"
    /\ lastResp.status = 401
    /\ lastResp.email # ""
    /\ lastResp.password # <<>>
    /\ FindByEmail(usersFile, lastResp.email) = NoUser
    /\ FetchDbUserByEmail(lastResp.email) = NoRow
    /\ \E e \in Emails : \/ FindByEmail(usersFile, e) # NoUser
                         \/ FetchDbUserByEmail(e) # NoRow

\* item i's entry is gone from the list, every other entry is as it was and
\* where it was among the others
Removed(i) ==
    LET before == GetTrackedJobs
        after == appliedJobsLog'
    IN /\ i <= Len(before)
       /\ Len(after) = Len(before) - 1
       /\ \A k \in 1..Len(after) :
              Shown(after[k]) = Shown(before[IF k < i THEN k ELSE k + 1])

\* C19: a click on the Remove button of a rendered tracker item removes from
\* appliedJobsLog the entry shown in that item and no other, the other
\* entries keeping their content and their order; this holds for entries
\* added by the dashboard banner, which have no stored id, as well
C19_RemoveDeletesClicked ==
    [][\A i \in 1..MaxJobs : DeleteClick(i) => Removed(i)]_vars

====
